---- MODULE Spec2Model ----
(***************************************************************************)
(* A model of tv_grab_th_dttguide.py: main() parses its arguments, opens   *)
(* the output, computes the requested window, and fetch_filter_convert()   *)
(* performs five POST requests, filters the program records, drops the     *)
(* channels without program, builds and writes the XMLTV document and      *)
(* reports whether the data covers the window.                             *)
(*                                                                         *)
(* Optional values (Python's None) are sequences of length 0 or 1.         *)
(* A datetime in UTC+7 is the number of seconds since 2000-01-01 00:00:00  *)
(* +07:00; a timedelta is a number of seconds.  A pgDate "DD-MM-YY" is the *)
(* triple <<DD, MM, YY>>, a pgBeginTime or pgDuration "H:MM:SS" the triple *)
(* <<H, MM, SS>> (whole seconds only).  Instants stay within 32 bits, that *)
(* is between the years 1969 and 2067.                                     *)
(***************************************************************************)
EXTENDS Integers, Sequences, FiniteSets, TLC

VARIABLES
    pc,                     \* position of the process in main / fetch_filter_convert
    args,                   \* the parsed command line
    requests,               \* the POST requests issued so far, in order
    responses,              \* the JSON bodies the server answered, in order
    outfile,                \* None, <<"stdout">> or <<"file">>
    stdout,                 \* what was written to standard output
    stderr,                 \* what was written to standard error
    file,                   \* None until opened, then <<contents>>
    earliest_start,         \* Optional datetime
    latest_start_exclusive, \* Optional datetime
    chnames,                \* fetch_filter_convert's local chnames
    chlogos,                \* fetch_filter_convert's local chlogos
    program_data,           \* fetch_filter_convert's local program_data
    e_tv,                   \* None until built, then <<the root element>>
    covers_days,            \* None until fetch_filter_convert returns
    exit_code               \* None until main returns

vars == <<pc, args, requests, responses, outfile, stdout, stderr, file,
          earliest_start, latest_start_exclusive, chnames, chlogos,
          program_data, e_tv, covers_days, exit_code>>

None == <<>>
Some(x) == <<x>>

----------------------------------------------------------------------------
(* Bounds of the explored inputs.                                          *)

MaxProgs == 2
MaxNames == 2
MaxLogos == 1

RECURSIVE SeqsUpTo(_, _)
SeqsUpTo(S, n) ==
    IF n = 0 THEN {<<>>}
    ELSE LET shorter == SeqsUpTo(S, n - 1)
         IN  shorter \cup {Append(s, x) : s \in {t \in shorter : Len(t) = n - 1}, x \in S}

----------------------------------------------------------------------------
(* datetime arithmetic                                                     *)

TZ_THAI == "+0700"

IsLeap(y) == y % 4 = 0 /\ (y % 100 # 0 \/ y % 400 = 0)

DaysBeforeYear(y) ==
    (y - 1) * 365 + ((y - 1) \div 4) - ((y - 1) \div 100) + ((y - 1) \div 400)

DaysInMonth(y, m) ==
    IF m = 2 THEN (IF IsLeap(y) THEN 29 ELSE 28)
    ELSE IF m \in {4, 6, 9, 11} THEN 30 ELSE 31

DaysBeforeMonth(y, m) ==
    <<0, 31, 59, 90, 120, 151, 181, 212, 243, 273, 304, 334>>[m]
        + (IF m > 2 /\ IsLeap(y) THEN 1 ELSE 0)

Ymd2Ord(y, m, d) == DaysBeforeYear(y) + DaysBeforeMonth(y, m) + d

EpochOrdinal == Ymd2Ord(2000, 1, 1)

\* datetime(y, m, d, H, M, S, tzinfo=TZ_THAI)
DateTime(y, m, d, H, M, S) ==
    (Ymd2Ord(y, m, d) - EpochOrdinal) * 86400 + H * 3600 + M * 60 + S

\* timedelta(days=, hours=, minutes=, seconds=)
timedelta(days, hours, minutes, seconds) ==
    days * 86400 + hours * 3600 + minutes * 60 + seconds

\* datetime.strptime(f"{pgDate} {pgBeginTime}", "%d-%m-%y %H:%M:%S").replace(tzinfo=TZ_THAI)
\* %y: 00..68 are 2000..2068, 69..99 are 1969..1999.
strptime(pgDate, pgBeginTime) ==
    LET year == IF pgDate[3] <= 68 THEN 2000 + pgDate[3] ELSE 1900 + pgDate[3]
    IN  DateTime(year, pgDate[2], pgDate[1],
                 pgBeginTime[1], pgBeginTime[2], pgBeginTime[3])

\* dt.strftime("%Y%m%d%H%M%S %z"): the fields in the order of the format.
\* The year is searched between ord / 366 and ord / 365 + 1, which holds it.
strftime(t) ==
    LET ord  == (t \div 86400) + EpochOrdinal
        sec  == t % 86400
        y    == CHOOSE yy \in (ord \div 366)..((ord \div 365) + 1) :
                    DaysBeforeYear(yy) < ord /\ ord <= DaysBeforeYear(yy + 1)
        n    == ord - DaysBeforeYear(y)
        m    == CHOOSE mm \in 1..12 :
                    DaysBeforeMonth(y, mm) < n
                    /\ n <= DaysBeforeMonth(y, mm) + DaysInMonth(y, mm)
        d    == n - DaysBeforeMonth(y, m)
    IN  <<y, m, d, sec \div 3600, (sec % 3600) \div 60, sec % 60, TZ_THAI>>

\* dt.replace(hour=0, minute=0, second=0, microsecond=0)
Midnight(t) == t - (t % 86400)

parse_duration(pgDuration) ==
    timedelta(0, pgDuration[1], pgDuration[2], pgDuration[3])

ProgramStart(program) == strptime(program.pgDate, program.pgBeginTime)

----------------------------------------------------------------------------
(* class DTTGuide                                                          *)

ChannelType == [t \in {"NATIONAL", "LOCAL"} |-> IF t = "NATIONAL" THEN 1 ELSE 2]

\* Mutant of getJson: the category is not put in the body.
getJson_without_channel_type(action, channel_type) ==
    [action |-> action, json |-> None]

\* The request getJson posts: the action of the URL and the JSON body.
getJson(action, channel_type) ==
    [action |-> action,
     json   |-> IF channel_type # None
                THEN Some([channelType |-> ToString(ChannelType[channel_type[1]])])
                ELSE None]

\* One POST: the request is issued and the server's body is received.
Post(request, res_json) ==
    /\ requests' = Append(requests, request)
    /\ responses' = Append(responses, res_json)

----------------------------------------------------------------------------
(* channels_from_chnames_and_chlogos                                       *)

ChannelId(channelNo) == channelNo \o ".dttguide.nbtc.go.th"

DisplayName(text) == [tag |-> "display-name", lang |-> "th", text |-> text]

\* Mutant of display_names: the nickname is emitted unconditionally.
display_names_always_nickname(ch, dispname_exceptions) ==
    (IF ch.channelNo \in DOMAIN dispname_exceptions
     THEN <<DisplayName(dispname_exceptions[ch.channelNo])>>
     ELSE <<>>)
    \o <<DisplayName(ch.stnName)>>
    \o <<DisplayName(ch.stnNickname)>>

\* Lines 81-93: the display-name children of one channel.
display_names(ch, dispname_exceptions) ==
    (IF ch.channelNo \in DOMAIN dispname_exceptions
     THEN <<DisplayName(dispname_exceptions[ch.channelNo])>>
     ELSE <<>>)
    \o <<DisplayName(ch.stnName)>>
    \o (IF ch.stnNickname # ch.stnName
        THEN <<DisplayName(ch.stnNickname)>>
        ELSE <<>>)

\* Mutant of icons: no break, one icon per matching logo.
icons_without_break(ch, logos) ==
    LET matching == SelectSeq(logos, LAMBDA logo : logo.channelNo = ch.channelNo)
    IN  [i \in 1..Len(matching) |->
            [tag |-> "icon",
             src |-> "data:image/png;base64," \o matching[i].channelLogoImage]]

\* Lines 95-106: the icon child of one channel, from the first matching logo.
icons(ch, logos) ==
    LET matching == {i \in 1..Len(logos) : logos[i].channelNo = ch.channelNo}
    IN  IF matching = {} THEN <<>>
        ELSE LET first == CHOOSE i \in matching : \A j \in matching : i <= j
             IN  <<[tag |-> "icon",
                    src |-> "data:image/png;base64," \o logos[first].channelLogoImage]>>

channels_from_chnames_and_chlogos(names, logos, dispname_exceptions) ==
    [i \in 1..Len(names) |->
        [tag      |-> "channel",
         id       |-> ChannelId(names[i].channelNo),
         children |-> display_names(names[i], dispname_exceptions)
                      \o icons(names[i], logos)]]

----------------------------------------------------------------------------
(* programme_from_programdata                                              *)

programme_children(program) ==
    <<[tag |-> "title", lang |-> "th", text |-> program.pgTitle]>>
    \o (IF program.pgDesc # None
        THEN <<[tag |-> "desc", lang |-> "th", text |-> program.pgDesc[1]]>>
        ELSE <<>>)
    \o (IF program.closeCaptFlag = "Y"
        THEN <<[tag |-> "subtitles", type |-> "teletext"]>>
        ELSE <<>>)
    \o (IF program.signLangFlag = "Y"
        THEN <<[tag |-> "subtitles", type |-> "deaf-signed"]>>
        ELSE <<>>)

programme_from_programdata(programs) ==
    [i \in 1..Len(programs) |->
        LET program == programs[i]
            start   == ProgramStart(program)
            stop    == start + parse_duration(program.pgDuration)
        IN  [tag      |-> "programme",
             channel  |-> ChannelId(program.channelNo),
             start    |-> strftime(start),
             stop     |-> strftime(stop),
             children |-> programme_children(program)]]

----------------------------------------------------------------------------
(* fetch_filter_convert: the pure parts                                    *)

\* Mutant of whithin_start_dates: both comparisons are off by one instant.
whithin_start_dates_shifted(program, earliest, latest) ==
    LET start == ProgramStart(program)
    IN  IF earliest # None /\ start <= earliest[1] THEN FALSE
        ELSE IF latest # None /\ start > latest[1] THEN FALSE
        ELSE TRUE

whithin_start_dates(program, earliest, latest) ==
    LET start == ProgramStart(program)
    IN  IF earliest # None /\ start < earliest[1] THEN FALSE
        ELSE IF latest # None /\ start >= latest[1] THEN FALSE
        ELSE TRUE

FilterPrograms(programs, earliest, latest) ==
    SelectSeq(programs, LAMBDA program : whithin_start_dates(program, earliest, latest))

\* Lines 186-188.
channels_with_program(programs) ==
    {programs[i].channelNo : i \in 1..Len(programs)}

\* Mutant of FilterChannels: the channels are not filtered.
FilterChannels_keeps_all(names, programs) == names

\* Line 190.
FilterChannels(names, programs) ==
    SelectSeq(names, LAMBDA ch : ch.channelNo \in channels_with_program(programs))

\* The table passed at lines 206-210 (the Thai display name of channel 27
\* is written here in Latin letters).
DispnameExceptions == [c \in {"03", "27"} |-> IF c = "03" THEN "ThaiPBS" ELSE "Chong 8"]

\* Mutant of BuildTv: the two extend calls are swapped.
BuildTv_programmes_first(names, logos, programs) ==
    [tag |-> "tv",
     source_info_name    |-> "DTT Guide",
     source_info_url     |-> "https://dttguide.nbtc.go.th/dttguide/",
     generator_info_name |-> "tv_grab_th_dttguide",
     generator_info_url  |-> "https://github.com/peat-psuwit/tv_grab_th_dttguide",
     children |-> programme_from_programdata(programs)
                  \o channels_from_chnames_and_chlogos(names, logos, DispnameExceptions)]

\* Lines 192-213.
BuildTv(names, logos, programs) ==
    [tag |-> "tv",
     source_info_name    |-> "DTT Guide",
     source_info_url     |-> "https://dttguide.nbtc.go.th/dttguide/",
     generator_info_name |-> "tv_grab_th_dttguide",
     generator_info_url  |-> "https://github.com/peat-psuwit/tv_grab_th_dttguide",
     children |-> channels_from_chnames_and_chlogos(names, logos, DispnameExceptions)
                  \o programme_from_programdata(programs)]

\* Lines 223-239: the loop over program_data from record i on, with the two
\* flags as they stand, and its early return.
RECURSIVE CoversLoop(_, _, _, _, _, _)
CoversLoop(programs, i, earliest, latest, covers_earliest, covers_latest) ==
    IF i > Len(programs) THEN FALSE
    ELSE LET start == ProgramStart(programs[i])
             ce == covers_earliest \/ (start - earliest < timedelta(0, 24, 0, 0))
             cl == covers_latest \/ (latest - start < timedelta(0, 24, 0, 0))
         IN  IF ce /\ cl THEN TRUE
             ELSE CoversLoop(programs, i + 1, earliest, latest, ce, cl)

\* Mutant of Covers: one record has to cover both bounds.
Covers_by_one_record(programs, earliest, latest) ==
    IF earliest = None \/ latest = None THEN TRUE
    ELSE \E i \in 1..Len(programs) :
            /\ ProgramStart(programs[i]) - earliest[1] < timedelta(0, 24, 0, 0)
            /\ latest[1] - ProgramStart(programs[i]) < timedelta(0, 24, 0, 0)

\* Lines 218-239.
Covers(programs, earliest, latest) ==
    IF earliest = None \/ latest = None THEN TRUE
    ELSE CoversLoop(programs, 1, earliest[1], latest[1], FALSE, FALSE)

\* Mutant of ExitCode: the failed coverage check is not reported.
ExitCode_always_zero(covers) == IF covers THEN 0 ELSE 0

\* Lines 296-303: the value main returns.
ExitCode(covers) == IF covers THEN 0 ELSE 1

----------------------------------------------------------------------------
(* main: the window of lines 277-292                                       *)

EarliestStart(a, now) ==
    IF a.offset # None
    THEN Some(Midnight(now) + timedelta(a.offset[1], 0, 0, 0))
    ELSE IF a.days # None THEN Some(Midnight(now)) ELSE None

LatestStartExclusive(a, now) ==
    IF a.days # None
    THEN Some(EarliestStart(a, now)[1] + timedelta(a.days[1], 0, 0, 0))
    ELSE None

----------------------------------------------------------------------------
(* The explored inputs.                                                    *)

Args(version, description, capabilities, output, days, offset) ==
    [version |-> version, description |-> description,
     capabilities |-> capabilities, output |-> output,
     days |-> days, offset |-> offset]

ReportArgs ==
    {Args(TRUE, FALSE, FALSE, None, None, None),
     Args(FALSE, TRUE, FALSE, None, None, None),
     Args(FALSE, FALSE, TRUE, Some("out.xml"), Some(1), None)}

WindowArgs ==
    {Args(FALSE, FALSE, FALSE, None, days, offset) :
        days \in {None, Some(0), Some(1), Some(2)},
        offset \in {None, Some(0), Some(1)}}
    \cup {Args(FALSE, FALSE, FALSE, Some("out.xml"), Some(2), None)}

FewArgs ==
    {Args(FALSE, FALSE, FALSE, None, None, None),
     Args(FALSE, FALSE, FALSE, Some("out.xml"), Some(1), Some(0))}

\* datetime.now(TZ_THAI)
Clock == {DateTime(2025, 1, 1, 0, 0, 0), DateTime(2025, 1, 1, 13, 45, 10)}

Channel(channelNo, stnName, stnNickname) ==
    [channelNo |-> channelNo, stnName |-> stnName, stnNickname |-> stnNickname]

Logo(channelNo, channelLogoImage) ==
    [channelNo |-> channelNo, channelLogoImage |-> channelLogoImage]

Program(channelNo, pgDate, pgBeginTime, pgDuration, pgTitle, pgDesc, closeCaptFlag, signLangFlag) ==
    [channelNo |-> channelNo, pgDate |-> pgDate, pgBeginTime |-> pgBeginTime,
     pgDuration |-> pgDuration, pgTitle |-> pgTitle, pgDesc |-> pgDesc,
     closeCaptFlag |-> closeCaptFlag, signLangFlag |-> signLangFlag]

ChannelRecords ==
    {Channel("03", "Thai Public Broadcasting", "Thai Public Broadcasting"),
     Channel("03", "Thai Public Broadcasting", "TPBS"),
     Channel("03", "ThaiPBS", "ThaiPBS"),
     Channel("11", "NBT", "NBT"),
     Channel("11", "NBT", "NBT 2HD")}

NationalLogos == {Logo("03", "iVBORw0KGgo="), Logo("11", "R0lGODlhAQ==")}
LocalLogos == {Logo("03", "Qk02AAAAAAA=")}

P_midnight == Program("03", <<1, 1, 25>>, <<0, 0, 0>>, <<1, 30, 0>>,
                      "News", None, "Y", "N")
P_evening  == Program("03", <<1, 1, 25>>, <<23, 0, 0>>, <<2, 0, 0>>,
                      "Film", Some("Late film"), "N", "N")
P_nextday  == Program("11", <<2, 1, 25>>, <<0, 0, 0>>, <<0, 30, 0>>,
                      "Sport", None, "Y", "Y")
P_lastyear == Program("52", <<31, 12, 24>>, <<23, 59, 59>>, <<0, 0, 30>>,
                      "Countdown", Some("New year"), "N", "N")
P_second   == Program("52", <<2, 1, 25>>, <<0, 0, 1>>, <<0, 59, 59>>,
                      "Local news", None, "N", "Y")
NationalPrograms == {P_midnight, P_evening, P_nextday}
LocalPrograms == {P_lastyear, P_second}

\* What the server may answer, per endpoint and category.
Upstream(names, logosNational, logosLocal, programsNational, programsLocal) ==
    [names |-> names,
     logos |-> [t \in {"NATIONAL", "LOCAL"} |->
                   IF t = "NATIONAL" THEN logosNational ELSE logosLocal],
     programs |-> [t \in {"NATIONAL", "LOCAL"} |->
                   IF t = "NATIONAL" THEN programsNational ELSE programsLocal]]

\* Many program listings and windows, few channel lists.
UpstreamProgrammes ==
    Upstream({<<Channel("03", "ThaiPBS", "TPBS"), Channel("11", "NBT", "NBT"),
                Channel("52", "Local 52", "Local 52")>>,
              <<Channel("03", "ThaiPBS", "TPBS")>>},
             {<<Logo("03", "iVBORw0KGgo=")>>},
             {<<>>},
             SeqsUpTo(NationalPrograms, MaxProgs),
             SeqsUpTo(LocalPrograms, MaxProgs))

\* Many channel lists and logo lists, few program listings and windows.
UpstreamChannels ==
    Upstream(SeqsUpTo(ChannelRecords, MaxNames),
             SeqsUpTo(NationalLogos, MaxLogos),
             SeqsUpTo(LocalLogos, MaxLogos),
             {<<P_midnight, P_nextday>>, <<P_evening>>},
             {<<>>, <<P_second>>})

----------------------------------------------------------------------------
(* The state machine.                                                      *)

\* What print(text) adds to a stream.
print(stream, text) == Append(stream, [line |-> text])

InitWith(argset) ==
    /\ pc = "main"
    /\ args \in argset
    /\ requests = <<>>
    /\ responses = <<>>
    /\ outfile = None
    /\ stdout = <<>>
    /\ stderr = <<>>
    /\ file = None
    /\ earliest_start = None
    /\ latest_start_exclusive = None
    /\ chnames = <<>>
    /\ chlogos = <<>>
    /\ program_data = <<>>
    /\ e_tv = None
    /\ covers_days = None
    /\ exit_code = None

\* Lines 261-263.
ReportVersion ==
    /\ pc = "main"
    /\ args.version
    /\ stdout' = print(stdout, "0.0~dev")
    /\ exit_code' = Some(0)
    /\ pc' = "done"
    /\ UNCHANGED <<args, requests, responses, outfile, stderr, file,
                   earliest_start, latest_start_exclusive, chnames, chlogos,
                   program_data, e_tv, covers_days>>

\* Lines 265-267.
ReportDescription ==
    /\ pc = "main"
    /\ ~args.version
    /\ args.description
    /\ stdout' = print(stdout, "Thailand (https://dttguide.nbtc.go.th/dttguide)")
    /\ exit_code' = Some(0)
    /\ pc' = "done"
    /\ UNCHANGED <<args, requests, responses, outfile, stderr, file,
                   earliest_start, latest_start_exclusive, chnames, chlogos,
                   program_data, e_tv, covers_days>>

\* Lines 269-271.
ReportCapabilities ==
    /\ pc = "main"
    /\ ~args.version
    /\ ~args.description
    /\ args.capabilities
    /\ stdout' = print(stdout, "baseline")
    /\ exit_code' = Some(0)
    /\ pc' = "done"
    /\ UNCHANGED <<args, requests, responses, outfile, stderr, file,
                   earliest_start, latest_start_exclusive, chnames, chlogos,
                   program_data, e_tv, covers_days>>

\* Lines 273-275: open(args.output, "w") creates or truncates the file.
OpenOutfile ==
    /\ pc = "main"
    /\ ~args.version
    /\ ~args.description
    /\ ~args.capabilities
    /\ outfile' = IF args.output # None THEN Some("file") ELSE Some("stdout")
    /\ file' = IF args.output # None THEN Some(<<>>) ELSE file
    /\ pc' = "window"
    /\ UNCHANGED <<args, requests, responses, stdout, stderr,
                   earliest_start, latest_start_exclusive, chnames, chlogos,
                   program_data, e_tv, covers_days, exit_code>>

\* Lines 277-292.
ComputeWindow ==
    /\ pc = "window"
    /\ \E now \in Clock :
          /\ earliest_start' = EarliestStart(args, now)
          /\ latest_start_exclusive' = LatestStartExclusive(args, now)
    /\ pc' = "getChannelNameWeb"
    /\ UNCHANGED <<args, requests, responses, outfile, stdout, stderr, file,
                   chnames, chlogos, program_data, e_tv, covers_days, exit_code>>

\* Line 163, lines 56-58.
getChannelNameWeb(upstream) ==
    /\ pc = "getChannelNameWeb"
    /\ \E results \in upstream.names :
          LET res_json == [results |-> results]
          IN  /\ Post(getJson("getChannelNameWeb", None), res_json)
              /\ chnames' = res_json.results
    /\ pc' = "getChannelLogoMediaWeb_NATIONAL"
    /\ UNCHANGED <<args, outfile, stdout, stderr, file, earliest_start,
                   latest_start_exclusive, chlogos, program_data, e_tv,
                   covers_days, exit_code>>

\* Lines 164-166, lines 60-62: the left operand of +, then the right one.
getChannelLogoMediaWeb(upstream, channel_type) ==
    /\ pc = "getChannelLogoMediaWeb_" \o channel_type
    /\ \E images \in upstream.logos[channel_type] :
          LET res_json == [channelLogoMediaImage |-> images]
          IN  /\ Post(getJson("getChannelLogoMediaWeb", Some(channel_type)), res_json)
              /\ chlogos' = chlogos \o res_json.channelLogoMediaImage
    /\ pc' = IF channel_type = "NATIONAL"
             THEN "getChannelLogoMediaWeb_LOCAL"
             ELSE "getProgramDataWeb_NATIONAL"
    /\ UNCHANGED <<args, outfile, stdout, stderr, file, earliest_start,
                   latest_start_exclusive, chnames, program_data, e_tv,
                   covers_days, exit_code>>

\* Lines 167-169, lines 52-54: the left operand of +, then the right one.
getProgramDataWeb(upstream, channel_type) ==
    /\ pc = "getProgramDataWeb_" \o channel_type
    /\ \E results \in upstream.programs[channel_type] :
          LET res_json == [results |-> results]
          IN  /\ Post(getJson("getProgramDataWeb", Some(channel_type)), res_json)
              /\ program_data' = program_data \o res_json.results
    /\ pc' = IF channel_type = "NATIONAL"
             THEN "getProgramDataWeb_LOCAL"
             ELSE "filter"
    /\ UNCHANGED <<args, outfile, stdout, stderr, file, earliest_start,
                   latest_start_exclusive, chnames, chlogos, e_tv,
                   covers_days, exit_code>>

FetchPcs ==
    {"getChannelNameWeb", "getChannelLogoMediaWeb_NATIONAL",
     "getChannelLogoMediaWeb_LOCAL", "getProgramDataWeb_NATIONAL",
     "getProgramDataWeb_LOCAL"}

\* Lines 49-50 with "No error handling": a transport or JSON fault is an
\* uncaught exception, the process ends with a traceback and main never returns.
FetchFault ==
    /\ pc \in FetchPcs
    /\ stderr' = print(stderr, "Traceback")
    /\ pc' = "fault"
    /\ UNCHANGED <<args, requests, responses, outfile, stdout, file,
                   earliest_start, latest_start_exclusive, chnames, chlogos,
                   program_data, e_tv, covers_days, exit_code>>

\* Lines 184-190.
Filter ==
    /\ pc = "filter"
    /\ program_data' = FilterPrograms(program_data, earliest_start,
                                      latest_start_exclusive)
    /\ chnames' = FilterChannels(chnames, program_data')
    /\ pc' = "build"
    /\ UNCHANGED <<args, requests, responses, outfile, stdout, stderr, file,
                   earliest_start, latest_start_exclusive, chlogos, e_tv,
                   covers_days, exit_code>>

\* Lines 192-213.
Build ==
    /\ pc = "build"
    /\ e_tv' = Some(BuildTv(chnames, chlogos, program_data))
    /\ pc' = "write"
    /\ UNCHANGED <<args, requests, responses, outfile, stdout, stderr, file,
                   earliest_start, latest_start_exclusive, chnames, chlogos,
                   program_data, covers_days, exit_code>>

\* What tree.write(outfile, encoding="unicode", xml_declaration=True) adds
\* to the stream.
tree_write(stream, root) ==
    Append(stream, [xml_declaration |-> TRUE, root |-> root])

\* Lines 215-216.
Write ==
    /\ pc = "write"
    /\ IF outfile = Some("file")
       THEN /\ file' = Some(tree_write(file[1], e_tv[1]))
            /\ UNCHANGED stdout
       ELSE /\ stdout' = tree_write(stdout, e_tv[1])
            /\ UNCHANGED file
    /\ pc' = "coverage"
    /\ UNCHANGED <<args, requests, responses, outfile, stderr,
                   earliest_start, latest_start_exclusive, chnames, chlogos,
                   program_data, e_tv, covers_days, exit_code>>

\* Lines 218-239 and the assignment of line 294.
Coverage ==
    /\ pc = "coverage"
    /\ covers_days' = Some(Covers(program_data, earliest_start,
                                  latest_start_exclusive))
    /\ pc' = "return"
    /\ UNCHANGED <<args, requests, responses, outfile, stdout, stderr, file,
                   earliest_start, latest_start_exclusive, chnames, chlogos,
                   program_data, e_tv, exit_code>>

Warning == "Warning: DTTGuide doesn't provide enough data for requested amount of days."

\* Mutant of Return: the output is discarded when the coverage check failed.
Return_discarding_output ==
    /\ pc = "return"
    /\ stderr' = IF covers_days[1] THEN stderr ELSE print(stderr, Warning)
    /\ exit_code' = Some(IF covers_days[1] THEN 0 ELSE 1)
    /\ stdout' = IF covers_days[1] THEN stdout ELSE <<>>
    /\ file' = IF covers_days[1] \/ file = None THEN file ELSE Some(<<>>)
    /\ pc' = "done"
    /\ UNCHANGED <<args, requests, responses, outfile,
                   earliest_start, latest_start_exclusive, chnames, chlogos,
                   program_data, e_tv, covers_days>>

\* Lines 296-303.
Return ==
    /\ pc = "return"
    /\ stderr' = IF covers_days[1] THEN stderr ELSE print(stderr, Warning)
    /\ exit_code' = Some(ExitCode(covers_days[1]))
    /\ pc' = "done"
    /\ UNCHANGED <<args, requests, responses, outfile, stdout, file,
                   earliest_start, latest_start_exclusive, chnames, chlogos,
                   program_data, e_tv, covers_days>>

Step ==
    \/ ReportVersion
    \/ ReportDescription
    \/ ReportCapabilities
    \/ OpenOutfile
    \/ ComputeWindow
    \/ FetchFault
    \/ Filter
    \/ Build
    \/ Write
    \/ Coverage
    \/ Return

Fetch(upstream) ==
    \/ getChannelNameWeb(upstream)
    \/ getChannelLogoMediaWeb(upstream, "NATIONAL")
    \/ getChannelLogoMediaWeb(upstream, "LOCAL")
    \/ getProgramDataWeb(upstream, "NATIONAL")
    \/ getProgramDataWeb(upstream, "LOCAL")

Init == InitWith(ReportArgs \cup WindowArgs)
Next == Step \/ Fetch(UpstreamProgrammes)
Spec == Init /\ [][Next]_vars

InitChannels == InitWith(ReportArgs \cup FewArgs)
NextChannels == Step \/ Fetch(UpstreamChannels)
SpecChannels == InitChannels /\ [][NextChannels]_vars

----------------------------------------------------------------------------
(* Vocabulary of the properties: what was fetched, what was emitted.       *)

Fetched == Len(responses) = 5
FetchedNames == responses[1].results
FetchedLogos == responses[2].channelLogoMediaImage \o responses[3].channelLogoMediaImage
FetchedPrograms == responses[4].results \o responses[5].results

Filtered == Fetched /\ pc \in {"build", "write", "coverage", "return", "done"}

\* The window of section 4.2 of the specification.
InWindow(program) ==
    /\ earliest_start = None \/ ProgramStart(program) >= earliest_start[1]
    /\ latest_start_exclusive = None \/ ProgramStart(program) < latest_start_exclusive[1]

Surviving == SelectSeq(FetchedPrograms, InWindow)

HasSurvivor(ch) ==
    \E i \in 1..Len(Surviving) : Surviving[i].channelNo = ch.channelNo

WithTag(elements, tag) == SelectSeq(elements, LAMBDA e : e.tag = tag)

EmittedChannels == WithTag(e_tv[1].children, "channel")
EmittedProgrammes == WithTag(e_tv[1].children, "programme")

Texts(elements) == [i \in 1..Len(elements) |-> elements[i].text]

IsDocument(item) == "xml_declaration" \in DOMAIN item

\* The documents written so far, to standard output and to the file.
Written ==
    SelectSeq(stdout, IsDocument)
    \o (IF file = None THEN <<>> ELSE SelectSeq(file[1], IsDocument))

\* Section 4.5 of the specification, over the surviving records as a set.
CoverageHolds ==
    \/ earliest_start = None
    \/ latest_start_exclusive = None
    \/ /\ \E i \in 1..Len(Surviving) :
            ProgramStart(Surviving[i]) - earliest_start[1] < 24 * 3600
       /\ \E i \in 1..Len(Surviving) :
            latest_start_exclusive[1] - ProgramStart(Surviving[i]) < 24 * 3600

----------------------------------------------------------------------------
(* The claims.                                                             *)

\* C1: once the document is built, every channel id referenced by an emitted
\* programme element is the id of an emitted channel element.
C1_ProgrammeChannelsEmitted ==
    e_tv # None =>
        {EmittedProgrammes[i].channel : i \in 1..Len(EmittedProgrammes)}
            \subseteq {EmittedChannels[i].id : i \in 1..Len(EmittedChannels)}

\* C2: after the filter, program_data holds exactly the fetched records whose
\* start lies in the window (earliest_start unset or start >= earliest_start,
\* latest_start_exclusive unset or start < latest_start_exclusive), in their
\* fetched order; a record starting exactly at earliest_start is kept, one
\* starting exactly at latest_start_exclusive is dropped, and with both bounds
\* unset every record is kept.
C2_WindowFilter ==
    Filtered =>
        /\ program_data = Surviving
        /\ \A i \in 1..Len(FetchedPrograms) :
              LET start == ProgramStart(FetchedPrograms[i])
                  kept  == \E j \in 1..Len(program_data) :
                               program_data[j] = FetchedPrograms[i]
              IN  /\ (earliest_start # None /\ start = earliest_start[1]
                      /\ (latest_start_exclusive = None
                          \/ start < latest_start_exclusive[1])) => kept
                  /\ (latest_start_exclusive # None
                      /\ start = latest_start_exclusive[1]) => ~kept
        /\ (earliest_start = None /\ latest_start_exclusive = None)
              => program_data = FetchedPrograms

\* A record starting exactly at earliest_start was kept and one starting
\* exactly at latest_start_exclusive was dropped.
C2_Witness ==
    /\ Filtered
    /\ earliest_start # None
    /\ latest_start_exclusive # None
    /\ \E i \in 1..Len(program_data) :
          ProgramStart(program_data[i]) = earliest_start[1]
    /\ \E i \in 1..Len(FetchedPrograms) :
          ProgramStart(FetchedPrograms[i]) = latest_start_exclusive[1]
    /\ Len(program_data) < Len(FetchedPrograms)

\* C3: a fetched channel-name record yields an emitted channel element if and
\* only if some program record with its channelNo survives the window: per
\* channelNo, the emitted channel elements are as many as the fetched records
\* when a program survives, and none otherwise.
C3_ChannelsWithProgram ==
    e_tv # None =>
        \A i \in 1..Len(FetchedNames) :
            LET ch      == FetchedNames[i]
                same    == SelectSeq(FetchedNames,
                                     LAMBDA c : c.channelNo = ch.channelNo)
                emitted == SelectSeq(EmittedChannels,
                                     LAMBDA e : e.id = ChannelId(ch.channelNo))
            IN  Len(emitted) = IF HasSurvivor(ch) THEN Len(same) ELSE 0

\* One fetched channel was emitted and another one was dropped.
C3_Witness ==
    /\ e_tv # None
    /\ \E i \in 1..Len(FetchedNames) : HasSurvivor(FetchedNames[i])
    /\ \E i \in 1..Len(FetchedNames) : ~HasSurvivor(FetchedNames[i])
    /\ Len(EmittedChannels) > 0
    /\ Len(EmittedChannels) < Len(FetchedNames)

\* C4: the coverage result is true when either bound is unset; with both set
\* it is true exactly when some surviving record starts less than 24 hours
\* after earliest_start and some surviving record starts less than 24 hours
\* before latest_start_exclusive; it is false when nothing survives.
C4_Coverage ==
    covers_days # None =>
        /\ covers_days[1] = CoverageHolds
        /\ (earliest_start = None \/ latest_start_exclusive = None)
              => covers_days[1]
        /\ (earliest_start # None /\ latest_start_exclusive # None
            /\ program_data = <<>>) => ~covers_days[1]

\* Coverage holds through two different records, none of which covers both
\* bounds.
C4_Witness ==
    /\ covers_days = Some(TRUE)
    /\ earliest_start # None
    /\ latest_start_exclusive # None
    /\ \A i \in 1..Len(program_data) :
          ~ /\ ProgramStart(program_data[i]) - earliest_start[1] < 24 * 3600
            /\ latest_start_exclusive[1] - ProgramStart(program_data[i]) < 24 * 3600
    /\ \E i, j \in 1..Len(program_data) :
          /\ i # j
          /\ latest_start_exclusive[1] - ProgramStart(program_data[i]) < 24 * 3600
          /\ ProgramStart(program_data[j]) - earliest_start[1] < 24 * 3600

\* C5: nothing is written before the write step; when the coverage result is
\* about to be computed the document has been written, once; and from then on,
\* whatever the coverage result, the output holds that one document, unaltered.
C5_WrittenOnceBeforeCoverage ==
    /\ pc \in FetchPcs \cup {"main", "window", "filter", "build", "write", "fault"}
          => Written = <<>>
    /\ pc = "coverage" => covers_days = None
    /\ pc \in {"coverage", "return", "done"} /\ Fetched
          => /\ Written = <<[xml_declaration |-> TRUE, root |-> e_tv[1]]>>
             /\ e_tv[1] = BuildTv(SelectSeq(FetchedNames, HasSurvivor),
                                  FetchedLogos, Surviving)

\* The run ended with a failed coverage check and the document is in the output.
C5_Witness ==
    /\ pc = "done"
    /\ covers_days = Some(FALSE)
    /\ Len(Written) = 1
    /\ Len(EmittedProgrammes) > 0

ReportRequested == args.version \/ args.description \/ args.capabilities

\* C6: with --version, --description or --capabilities main returns 0 and
\* nothing is fetched and no output is opened; otherwise, when the fetches
\* succeeded, main returns 1 with the warning on standard error exactly when
\* the coverage check fails, and 0 with nothing on standard error otherwise.
C6_ExitCode ==
    /\ ReportRequested =>
          /\ requests = <<>>
          /\ outfile = None
          /\ file = None
          /\ pc = "done" => exit_code = Some(0)
    /\ (pc = "done" /\ ~ReportRequested) =>
          IF CoverageHolds
          THEN exit_code = Some(0) /\ stderr = <<>>
          ELSE exit_code = Some(1) /\ stderr = <<[line |-> Warning]>>

\* main returned 1 after a complete run.
C6_Witness ==
    /\ pc = "done"
    /\ ~ReportRequested
    /\ exit_code = Some(1)
    /\ ~CoverageHolds

\* The channel-name records that are emitted, in fetched order.
SurvivingNames == SelectSeq(FetchedNames, HasSurvivor)

\* The display names the specification (section 4.4) gives a channel record.
ExpectedDisplayNames(ch) ==
    (IF ch.channelNo = "03" THEN <<"ThaiPBS">>
     ELSE IF ch.channelNo = "27" THEN <<"Chong 8">>
     ELSE <<>>)
    \o <<ch.stnName>>
    \o (IF ch.stnNickname = ch.stnName THEN <<>> ELSE <<ch.stnNickname>>)

\* C7: the display-name elements of every emitted channel are the override of
\* its channelNo if the table has one, then stnName, then stnNickname if it
\* differs from stnName; when stnNickname equals stnName, no display-name
\* element is emitted for the nickname.
C7_DisplayNames ==
    e_tv # None =>
        /\ Len(EmittedChannels) = Len(SurvivingNames)
        /\ \A k \in 1..Len(EmittedChannels) :
              LET ch    == SurvivingNames[k]
                  names == WithTag(EmittedChannels[k].children, "display-name")
              IN  /\ Texts(names) = ExpectedDisplayNames(ch)
                  /\ \A n \in 1..Len(names) : names[n].lang = "th"
                  /\ ch.stnNickname = ch.stnName =>
                        Len(names) = (IF ch.channelNo \in {"03", "27"} THEN 2 ELSE 1)

\* Emitted: a channel with an override and a differing nickname, and a channel
\* without override whose nickname equals its name.
C7_Witness ==
    /\ e_tv # None
    /\ \E k \in 1..Len(EmittedChannels) :
          Len(WithTag(EmittedChannels[k].children, "display-name")) = 3
    /\ \E k \in 1..Len(EmittedChannels) :
          /\ SurvivingNames[k].stnNickname = SurvivingNames[k].stnName
          /\ Len(WithTag(EmittedChannels[k].children, "display-name")) = 1

\* C8: every emitted channel has at most one icon element; it has one exactly
\* when some fetched logo record (NATIONAL then LOCAL) has its channelNo, and
\* the icon's data URL then carries the channelLogoImage of the first such
\* record.
C8_Icon ==
    e_tv # None =>
        /\ Len(EmittedChannels) = Len(SurvivingNames)
        /\ \A k \in 1..Len(EmittedChannels) :
              LET ch    == SurvivingNames[k]
                  found == WithTag(EmittedChannels[k].children, "icon")
                  match(i) == FetchedLogos[i].channelNo = ch.channelNo
              IN  IF \E i \in 1..Len(FetchedLogos) : match(i)
                  THEN /\ Len(found) = 1
                       /\ \E i \in 1..Len(FetchedLogos) :
                             /\ match(i)
                             /\ \A j \in 1..(i - 1) : ~match(j)
                             /\ found[1].src = "data:image/png;base64,"
                                                 \o FetchedLogos[i].channelLogoImage
                  ELSE found = <<>>

\* A channel with two matching logo records of different payloads was emitted,
\* and so was a channel without logo.
C8_Witness ==
    /\ e_tv # None
    /\ \E k \in 1..Len(EmittedChannels) :
          \E i, j \in 1..Len(FetchedLogos) :
              /\ i < j
              /\ FetchedLogos[i].channelNo = SurvivingNames[k].channelNo
              /\ FetchedLogos[j].channelNo = SurvivingNames[k].channelNo
              /\ FetchedLogos[i].channelLogoImage # FetchedLogos[j].channelLogoImage
    /\ \E k \in 1..Len(EmittedChannels) :
          WithTag(EmittedChannels[k].children, "icon") = <<>>

\* C9: the children of the document are the channel elements of the surviving
\* channel-name records, in fetched order, followed by one programme element
\* per surviving program record, in fetched order (NATIONAL then LOCAL).
C9_DocumentOrder ==
    e_tv # None =>
        LET children == e_tv[1].children
            nc == Len(SurvivingNames)
            np == Len(Surviving)
        IN  /\ Len(children) = nc + np
            /\ \A k \in 1..nc :
                  /\ children[k].tag = "channel"
                  /\ children[k].id = ChannelId(SurvivingNames[k].channelNo)
            /\ \A k \in 1..np :
                  LET e == children[nc + k]
                  IN  /\ e.tag = "programme"
                      /\ e.channel = ChannelId(Surviving[k].channelNo)
                      /\ e.start = strftime(ProgramStart(Surviving[k]))
                      /\ e.children[1].text = Surviving[k].pgTitle

\* Emitted: a channel, a record twice, and a LOCAL record that starts before
\* the NATIONAL record emitted ahead of it.
C9_Witness ==
    /\ e_tv # None
    /\ Len(EmittedChannels) > 0
    /\ Len(responses[4].results) > 0
    /\ Len(responses[5].results) > 0
    /\ \E i, j \in 1..Len(EmittedProgrammes) :
          i < j /\ EmittedProgrammes[i] = EmittedProgrammes[j]
    /\ \E i, j \in 1..Len(Surviving) :
          i < j /\ ProgramStart(Surviving[j]) < ProgramStart(Surviving[i])

Request(action, body) == [action |-> action, json |-> body]

WithAction(action) == SelectSeq(requests, LAMBDA r : r.action = action)

ExpectedRequests ==
    <<Request("getChannelNameWeb", None),
      Request("getChannelLogoMediaWeb", Some([channelType |-> "1"])),
      Request("getChannelLogoMediaWeb", Some([channelType |-> "2"])),
      Request("getProgramDataWeb", Some([channelType |-> "1"])),
      Request("getProgramDataWeb", Some([channelType |-> "2"]))>>

====
